---- MODULE Spec2Model ----
(***************************************************************************)
(* Model of src/marca_harvester.py: the listing resolver                   *)
(* (parse_listing_document, parse_all_listings), the adaptive keyword      *)
(* prefilter, the extraction loop with its strict filter, is_recent, the   *)
(* CNMV loop, the composition of the final HTML and the delivery decision  *)
(* of main().                                                              *)
(***************************************************************************)
EXTENDS Integers, Sequences, FiniteSets, TLC

(***************************************************************************)
(* Bounds of the model.                                                    *)
(***************************************************************************)
\* longest list of links one view of a fetched document holds (run model)
MaxLinks == 2
\* largest max_to_fetch a source is configured with
MaxFetch == 2
\* the prefilter model's listings hold within MaxExtra items of the length
\* at which the relative threshold overtakes the absolute one
MaxExtra == 6
\* and within MaxMiss matching items of THRESH_ABS
MaxMiss == 2
\* most elements one tier of the tier model's documents holds
MaxTier == 6
\* most rows a table of the CNMV model holds after its first row
MaxRows == 3
\* largest window, in hours, is_recent is asked about
MaxHours == 3
\* how many seconds the clock may advance during the extraction loop
MaxDrift == 1

(***************************************************************************)
(* Program constants.                                                      *)
(***************************************************************************)
\* main: THRESH_ABS = 50
THRESH_ABS == 50
\* main: THRESH_REL = 0.2, kept as the fraction 1 / THRESH_REL_DEN
THRESH_REL_DEN == 5
\* SOURCES: s.get("max_to_fetch", 400)
DEFAULT_MAX_TO_FETCH == 400
\* parse_listing_document: "if len(items) < 5" before the regex fallback
REGEX_MIN_ITEMS == 5
\* is_recent: CFG.get("hours_recent", 24)
DEFAULT_HOURS_RECENT == 24
\* is_recent: hours * 3600
SECONDS_PER_HOUR == 3600
\* build_html_multi: "if len(resumen_corto) > 300"
SUMMARY_MAX == 300

\* None, "" and [] alike: the empty sequence; a value that is present is
\* a non-empty sequence (an optional record is <<r>>)
None == <<>>

(***************************************************************************)
(* Text.  A str is a sequence of characters.  The alphabet holds plain     *)
(* letters, capitals, the precomposed accented letters "a_acute" and       *)
(* "A_acute", and the combining acute accent "acute".  A phrase the code    *)
(* searches for as a whole ("posiciones cortas", "</body></html>", ...) is *)
(* one character of the alphabet.                                          *)
(***************************************************************************)
\* unicodedata.normalize('NFKD', s) on one character: an accented letter
\* decomposes into its base letter followed by the combining acute accent.
nfkd(c) ==
    CASE c = "a_acute" -> <<"a", "acute">>
      [] c = "A_acute" -> <<"A", "acute">>
      [] OTHER -> <<c>>

\* unicodedata.combining(c) != 0
combining(c) == c = "acute"

\* str.lower() on one character
lower(c) ==
    CASE c = "A" -> "a"
      [] c = "G" -> "g"
      [] c = "S" -> "s"
      [] c = "Posiciones cortas" -> "posiciones cortas"
      [] c = "Short positions" -> "short positions"
      [] OTHER -> c

RECURSIVE Flatten(_)
Flatten(ss) == IF ss = <<>> THEN <<>> ELSE Head(ss) \o Flatten(Tail(ss))

\* norm(s): NFKD, drop the combining characters, lower-case.
norm(s) ==
    IF s = None THEN <<>>
    ELSE LET d == Flatten([i \in 1..Len(s) |-> nfkd(s[i])])
             k == SelectSeq(d, LAMBDA c : ~combining(c))
         IN [i \in 1..Len(k) |-> lower(k[i])]

\* Python's "k in s" for two str
Contains(s, k) ==
    \E i \in 0..(Len(s) - Len(k)) : SubSeq(s, i + 1, i + Len(k)) = k

(***************************************************************************)
(* URLs.  An absolute URL is [site, path], path a str; an href with site   *)
(* "" is relative.  domain_prefix is the site every URL of the source      *)
(* starts with.  NoHref is a missing or empty link.  The path segments     *)
(* "/album/", "/video/", "/fotogaleria/" and the suffix ".html" are single *)
(* characters of the alphabet.                                             *)
(***************************************************************************)
NoHref == [site |-> "", path |-> <<>>]

URL(site, path) == [site |-> site, path |-> path]

\* urllib.parse.urljoin(base, href)
urljoin(base, href) ==
    IF href.site = "" THEN [site |-> base.site, path |-> href.path] ELSE href

\* url.startswith(domain_prefix)
startswith(url, domain_prefix) == url.site = domain_prefix

\* the text of an absolute URL
url_text(url) == <<url.site>> \o url.path

\* any(x in url for x in ["/album/", "/video/", "/fotogaleria/"])
in_gallery(url) ==
    \E x \in {"/album/", "/video/", "/fotogaleria/"} : Contains(url_text(url), <<x>>)

Link(href, title, time_hint) ==
    [href |-> href, title |-> title, time_hint |-> time_hint]

Item(url, title, time_hint) ==
    [url |-> url, title |-> title, time_hint |-> time_hint]

\* all the orders in which list(set) may enumerate the set S
Orders(S) ==
    {f \in [1..Cardinality(S) -> S] : \A i, j \in 1..Cardinality(S) : f[i] = f[j] => i = j}

\* extract_urls_regex(html, base, domain_prefix): hrefs are the href="....html"
\* attributes of the page; the result is a set, listed in an arbitrary order.
extract_urls_regex(hrefs, base, domain_prefix) ==
    {u \in {urljoin(base, h) : h \in hrefs} :
        startswith(u, domain_prefix) /\ ~in_gallery(u)}

(***************************************************************************)
(* parse_listing_document.  A fetched document is                          *)
(*   [feed, rss, atom, article_a, heading_a, hrefs]:                       *)
(* whether it has an <rss> or <feed> element, its <item> and <entry>       *)
(* elements, the anchors the two HTML selectors match, and the hrefs the   *)
(* regex matches.                                                          *)
(***************************************************************************)
\* the "for it in soup.select('item')" and "for e in soup.select('entry')"
\* loops: skip an element without link, append, stop once len(items) >= max
RECURSIVE feed_loop(_, _, _, _)
feed_loop(items, links, url, max_to_fetch) ==
    IF links = <<>> THEN items
    ELSE LET l == Head(links) IN
         IF l.href = NoHref THEN feed_loop(items, Tail(links), url, max_to_fetch)
         ELSE LET more == Append(items, Item(urljoin(url, l.href), l.title, l.time_hint)) IN
              IF Len(more) >= max_to_fetch THEN more
              ELSE feed_loop(more, Tail(links), url, max_to_fetch)

\* 1) RSS/Atom
feed_tier(doc, url, max_to_fetch) ==
    IF ~doc.feed THEN <<>>
    ELSE LET rss == feed_loop(<<>>, doc.rss, url, max_to_fetch) IN
         IF rss # <<>> THEN rss ELSE feed_loop(<<>>, doc.atom, url, max_to_fetch)

\* the "for a in candidates" loop
RECURSIVE html_loop(_, _, _, _, _)
html_loop(items, candidates, url, domain_prefix, max_to_fetch) ==
    IF candidates = <<>> THEN items
    ELSE LET a == Head(candidates)
             url_abs == urljoin(url, a.href) IN
         IF a.href = NoHref \/ ~startswith(url_abs, domain_prefix)
         THEN html_loop(items, Tail(candidates), url, domain_prefix, max_to_fetch)
         ELSE LET more == Append(items, Item(url_abs, a.title, a.time_hint)) IN
              IF Len(more) >= max_to_fetch THEN more
              ELSE html_loop(more, Tail(candidates), url, domain_prefix, max_to_fetch)

\* 2) HTML
html_tier(items, doc, url, domain_prefix, max_to_fetch) ==
    IF items # <<>> THEN items
    ELSE LET candidates == IF doc.article_a # <<>> THEN doc.article_a ELSE doc.heading_a
         IN html_loop(<<>>, candidates, url, domain_prefix, max_to_fetch)

\* the "for u in extract_urls_regex(...)" loop
RECURSIVE regex_loop(_, _, _)
regex_loop(items, urls, max_to_fetch) ==
    IF urls = <<>> THEN items
    ELSE LET more == Append(items, Item(Head(urls), <<>>, <<>>)) IN
         IF Len(more) >= max_to_fetch THEN more
         ELSE regex_loop(more, Tail(urls), max_to_fetch)

\* the regex fallback run whatever the count of items
regex_tier_always(items, urls, max_to_fetch) == regex_loop(items, urls, max_to_fetch)

\* 3) Fallback regex; urls is extract_urls_regex's result in the order listed
regex_tier(items, urls, max_to_fetch) ==
    IF Len(items) < REGEX_MIN_ITEMS THEN regex_loop(items, urls, max_to_fetch)
    ELSE items

\* items as they stand before the dedup
tiers(doc, url, domain_prefix, max_to_fetch, urls) ==
    regex_tier(
        html_tier(feed_tier(doc, url, max_to_fetch), doc, url, domain_prefix, max_to_fetch),
        urls, max_to_fetch)

\* the dedup loop of parse_listing_document
RECURSIVE dedup_loop(_, _, _, _)
dedup_loop(seen, out, items, max_to_fetch) ==
    IF items = <<>> THEN out
    ELSE LET it == Head(items) IN
         IF it.url \in seen THEN dedup_loop(seen, out, Tail(items), max_to_fetch)
         ELSE LET more == Append(out, it) IN
              IF Len(more) >= max_to_fetch THEN more
              ELSE dedup_loop(seen \cup {it.url}, more, Tail(items), max_to_fetch)

dedup(items, max_to_fetch) == dedup_loop({}, <<>>, items, max_to_fetch)

\* what parse_listing_document returns for a fetched document
parse_listing_document(doc, url, domain_prefix, max_to_fetch, urls) ==
    dedup(tiers(doc, url, domain_prefix, max_to_fetch, urls), max_to_fetch)

(***************************************************************************)
(* Keywords and the adaptive prefilter of main().                          *)
(***************************************************************************)
\* main: "Normaliza keyword(s) -> lista"; keyword is the configured list,
\* whose entries may be None
kw_list_of(keyword) ==
    IF keyword = <<>> THEN None
    ELSE LET given == SelectSeq(keyword, LAMBDA k : k # None)
         IN [j \in 1..Len(given) |-> norm(given[j])]

\* any(k in norm(title) or k in norm(url) for k in kw_list)
listing_match(it, kw_list) ==
    \E j \in 1..Len(kw_list) :
        \/ Contains(norm(it.title), kw_list[j])
        \/ Contains(norm(url_text(it.url)), kw_list[j])

Max(a, b) == IF a >= b THEN a ELSE b

\* the product rounded up instead
rel_threshold_ceil(before) == (before + THRESH_REL_DEN - 1) \div THRESH_REL_DEN

\* int(before * THRESH_REL): the product truncated to an integer; the double
\* 0.2 lies just above 1/5, so the truncated product is the integer quotient
rel_threshold(before) == before \div THRESH_REL_DEN

\* use_prefilter = len(pre) >= max(THRESH_ABS, int(before * THRESH_REL))
use_prefilter(n_pre, before) == n_pre >= Max(THRESH_ABS, rel_threshold(before))

\* the prefilter block of main(): the listing the extraction loop receives
prefilter(listing, kw_list) ==
    IF kw_list = <<>> THEN listing
    ELSE LET pre == SelectSeq(listing, LAMBDA it : listing_match(it, kw_list))
         IN IF use_prefilter(Len(pre), Len(listing)) THEN pre ELSE listing

(***************************************************************************)
(* Dates.  A date text is [ok, local, offset]: whether dateutil parses it, *)
(* the wall-clock time it states in seconds, and its UTC offset if it      *)
(* states one.  An instant is [utc, tz].                                   *)
(***************************************************************************)
DateText(ok, local, offset) == [ok |-> ok, local |-> local, offset |-> offset]

\* the UTC offset of the zone tz.gettz(tzname)
utcoffset(tzname) == IF tzname = "Europe/Madrid" THEN SECONDS_PER_HOUR ELSE 0

\* dateparser.parse(text) as seconds since the epoch; a text without offset
\* is taken as `assumed` seconds east of UTC
instant_of(text, assumed) ==
    text.local - (IF text.offset = None THEN assumed ELSE text.offset[1])

normalize_datetime(dt_str, tzname) ==
    IF dt_str = None THEN None
    ELSE IF ~dt_str[1].ok THEN None
    ELSE <<[utc |-> instant_of(dt_str[1], 0), tz |-> tzname]>>

\* datetime.isoformat() of an aware datetime
isoformat(dt) ==
    DateText(TRUE, dt.utc + utcoffset(dt.tz), <<utcoffset(dt.tz)>>)

\* is_recent(dt_iso, tzname, hours) read at clock time now, with the
\* configured hours_recent (None when the key is absent)
is_recent(dt_iso, tzname, hours, hours_recent, now) ==
    LET configured == IF hours_recent = None THEN DEFAULT_HOURS_RECENT ELSE hours_recent[1]
        h == IF hours = None \/ hours = <<0>> THEN configured ELSE hours[1]
    IN IF dt_iso = None THEN FALSE
       ELSE IF ~dt_iso[1].ok THEN FALSE
       ELSE now - instant_of(dt_iso[1], 0) <= h * SECONDS_PER_HOUR

(***************************************************************************)
(* extract_article.  A fetched article page is                             *)
(*   [status, jsonld, author_metas, byline, h1, text, date_tags]:          *)
(* the NewsArticle block extract_jsonld finds (or None), per author meta   *)
(* selector the content of the tag found (None without tag or content),    *)
(* the byline selector's text, the first h1's text, what trafilatura       *)
(* extracts, and per date selector the text of the tag found.              *)
(***************************************************************************)
Meta(datePublished, dateModified, headline, articleBody, author) ==
    [datePublished |-> datePublished, dateModified |-> dateModified,
     headline |-> headline, articleBody |-> articleBody, author |-> author]

\* extract_jsonld(...) or {}
NoMeta == Meta(None, None, None, None, None)

RECURSIVE lstrip(_)
lstrip(s) == IF s # <<>> /\ Head(s) = " " THEN lstrip(Tail(s)) ELSE s

RECURSIVE rstrip(_)
rstrip(s) ==
    IF s # <<>> /\ s[Len(s)] = " " THEN rstrip(SubSeq(s, 1, Len(s) - 1)) ELSE s

\* str.strip()
strip(s) == rstrip(lstrip(s))

\* pick_name(x): x is None, <<[kind |-> "str", v]>>, <<[kind |-> "dict",
\* name, id]>> or a value of another type, <<[kind |-> "other"]>>
pick_name(x) ==
    IF x = None THEN <<>>
    ELSE IF x[1].kind = "dict" THEN (IF x[1].name # <<>> THEN x[1].name ELSE x[1].id)
    ELSE IF x[1].kind = "str" THEN x[1].v
    ELSE <<>>

\* ", ".join(names)
RECURSIVE join(_)
join(names) ==
    IF names = <<>> THEN <<>>
    ELSE IF Len(names) = 1 THEN names[1]
    ELSE names[1] \o <<",", " ">> \o join(Tail(names))

\* the author taken from the JSON-LD block
jsonld_author(auth) ==
    IF auth # None /\ auth[1].kind = "list"
    THEN LET picked == [j \in 1..Len(auth[1].elems) |-> pick_name(auth[1].elems[j])]
         IN join(SelectSeq(picked, LAMBDA n : n # <<>>))
    ELSE pick_name(auth)

\* the loop over the author meta selectors: the first tag with content
\* ends it, its content stripped
RECURSIVE meta_author(_)
meta_author(author_metas) ==
    IF author_metas = <<>> THEN <<>>
    ELSE IF Head(author_metas) # None THEN strip(Head(author_metas))
    ELSE meta_author(Tail(author_metas))

\* extract_published_from_html
RECURSIVE extract_published_from_html(_, _)
extract_published_from_html(date_tags, tzname) ==
    IF date_tags = <<>> THEN None
    ELSE LET dt == normalize_datetime(Head(date_tags), tzname) IN
         IF dt # None THEN dt
         ELSE extract_published_from_html(Tail(date_tags), tzname)

\* the record extract_article returns for a page fetched with status 200
extract_article(page, url, tzname) ==
    LET meta == IF page.jsonld = None THEN NoMeta ELSE page.jsonld[1]
        first_date == IF meta.datePublished # None THEN meta.datePublished
                      ELSE meta.dateModified
        published0 == normalize_datetime(first_date, tzname)
        author0 == jsonld_author(meta.author)
        author1 == IF author0 # <<>> THEN author0 ELSE meta_author(page.author_metas)
        author == IF author1 # <<>> THEN author1 ELSE page.byline
        article_body == IF meta.articleBody # None THEN meta.articleBody
                        ELSE strip(page.text)
        headline == IF meta.headline # None THEN meta.headline ELSE page.h1
        published == IF published0 # None THEN published0
                     ELSE extract_published_from_html(page.date_tags, tzname)
    IN [url |-> url, title |-> headline, author |-> author,
        published |-> IF published = None THEN None ELSE <<isoformat(published[1])>>,
        content |-> article_body]

\* the two tests of main()'s loop an extracted article must pass
keyword_ok(art, kw_list) ==
    kw_list = <<>> \/
    LET fulltxt == norm(art.title \o <<" ">> \o art.content)
    IN \E j \in 1..Len(kw_list) : Contains(fulltxt, kw_list[j])

\* recent_ok without the call of is_recent
recent_ok_dated(art, tzname, hours_recent, now) == art.published # None

\* "if not art.get("published") or not is_recent(...)": continue
recent_ok(art, tzname, hours_recent, now) ==
    art.published # None /\ is_recent(art.published, tzname, None, hours_recent, now)

strict_filter(art, kw_list, tzname, hours_recent, now) ==
    keyword_ok(art, kw_list) /\ recent_ok(art, tzname, hours_recent, now)

(***************************************************************************)
(* The CNMV scraper.  A fetched CNMV page is [status, tables, headings]:   *)
(* its tables in document order, each [marked, trs] (whether its text      *)
(* holds one of the two header phrases, and its rows, each the list of the *)
(* texts of its td cells), and the texts of its h1, h2 and strong tags.    *)
(***************************************************************************)
Digits == {"0", "1", "2", "5"}

digit_value(c) ==
    CASE c = "0" -> 0 [] c = "1" -> 1 [] c = "2" -> 2 [] c = "5" -> 5

\* pct_raw.replace(",", ".")
replace_comma(t) == [j \in 1..Len(t) |-> IF t[j] = "," THEN "." ELSE t[j]]

RECURSIVE digits_value(_)
digits_value(t) ==
    IF t = <<>> THEN 0
    ELSE 10 * digits_value(SubSeq(t, 1, Len(t) - 1)) + digit_value(t[Len(t)])

RECURSIVE pow10(_)
pow10(n) == IF n = 0 THEN 1 ELSE 10 * pow10(n - 1)

\* float(pct_str): None for ValueError, else <<[num, den]>>, the value num/den
to_float(t) ==
    LET dots == {j \in 1..Len(t) : t[j] = "."}
        digs == SelectSeq(t, LAMBDA c : c \in Digits)
    IN IF (\A j \in 1..Len(t) : t[j] \in Digits \cup {"."})
          /\ Cardinality(dots) <= 1 /\ digs # <<>>
       THEN <<[num |-> digits_value(digs),
               den |-> IF dots = {} THEN 1
                       ELSE pow10(Len(t) - (CHOOSE j \in dots : TRUE))]>>
       ELSE None

\* datetime.strptime(date_raw, "%d/%m/%Y").date().isoformat(), the text split
\* at its separators; date_raw itself on ValueError
pad2(c) == IF c = "5" THEN "05" ELSE IF c = "3" THEN "03" ELSE c

date_iso_of(date_raw) ==
    IF /\ Len(date_raw) = 5
       /\ date_raw[2] = "/" /\ date_raw[4] = "/"
       /\ pad2(date_raw[1]) \in {"05", "28"}
       /\ pad2(date_raw[3]) \in {"03", "12"}
       /\ date_raw[5] \in {"2024"}
    THEN <<date_raw[5], "-", pad2(date_raw[3]), "-", pad2(date_raw[1])>>
    ELSE date_raw

\* the "for tr in trs" loop leaving at the first row it does not keep
RECURSIVE cnmv_rows_stop(_)
cnmv_rows_stop(trs) ==
    IF trs = <<>> THEN <<>>
    ELSE LET tds == Head(trs) IN
         IF Len(tds) < 3 THEN <<>>
         ELSE LET pct == to_float(replace_comma(tds[2])) IN
              IF pct = None THEN <<>>
              ELSE <<[holder |-> tds[1], net_short_pct |-> pct[1],
                      date |-> date_iso_of(tds[3])]>> \o cnmv_rows_stop(Tail(trs))

\* the "for tr in trs" loop
RECURSIVE cnmv_rows(_)
cnmv_rows(trs) ==
    IF trs = <<>> THEN <<>>
    ELSE LET tds == Head(trs)
             rest == cnmv_rows(Tail(trs)) IN
         IF Len(tds) < 3 THEN rest
         ELSE LET pct == to_float(replace_comma(tds[2])) IN
              IF pct = None THEN rest
              ELSE <<[holder |-> tds[1], net_short_pct |-> pct[1],
                      date |-> date_iso_of(tds[3])]>> \o rest

\* "Emisor (mejor esfuerzo)"
RECURSIVE cnmv_issuer(_)
cnmv_issuer(headings) ==
    IF headings = <<>> THEN <<>>
    ELSE LET text == Head(headings)
             low == [j \in 1..Len(text) |-> lower(text[j])] IN
         IF text = <<>> \/ Contains(low, <<"posiciones cortas">>)
                        \/ Contains(low, <<"short positions">>)
         THEN cnmv_issuer(Tail(headings))
         ELSE text

\* get_cnmv_short_positions(nif): None, or <<block>>
get_cnmv_short_positions(page, nif) ==
    IF page.status # 200 THEN None
    ELSE LET marked == SelectSeq(page.tables, LAMBDA t : t.marked) IN
         IF marked = <<>>
         THEN <<[nif |-> nif, issuer |-> <<>>, url |-> <<"cnmv?nif=", nif>>, rows |-> <<>>]>>
         ELSE LET table == marked[1]
                  trs == IF table.trs = <<>> THEN <<>> ELSE Tail(table.trs)
              IN <<[nif |-> nif, issuer |-> cnmv_issuer(page.headings),
                    url |-> <<"cnmv?nif=", nif>>, rows |-> cnmv_rows(trs)]>>

(***************************************************************************)
(* The HTML of the report: a str, its tags single characters.              *)
(***************************************************************************)
MARKER == "</body></html>"

\* "\n".join(parts)
RECURSIVE join_lines(_)
join_lines(parts) ==
    IF parts = <<>> THEN <<>>
    ELSE IF Len(parts) = 1 THEN parts[1]
    ELSE parts[1] \o <<"\n">> \o join_lines(Tail(parts))

\* f'{r["net_short_pct"]:.3f}': the value in thousandths
fmt3(pct) == <<ToString((pct.num * 1000) \div pct.den)>>

cnmv_row_html(r) ==
    <<"<tr>", "<td>">> \o r.holder \o <<"<td>">> \o fmt3(r.net_short_pct)
        \o <<"<td>">> \o r.date \o <<"</tr>">>

cnmv_block_parts(b) ==
    LET issuer == strip(b.issuer)
        title == IF issuer # <<>> THEN issuer \o <<" ", "(", b.nif, ")">> ELSE <<b.nif>>
        head == << <<"<h3>">> \o title, <<"<div>", "Fuente">> \o b.url >>
    IN IF b.rows = <<>> THEN Append(head, <<"<p>", "Sin posiciones vivas publicadas.">>)
       ELSE head \o << <<"<table>">> >>
                 \o [j \in 1..Len(b.rows) |-> cnmv_row_html(b.rows[j])]
                 \o << <<"</table>">> >>

\* build_html_cnmv(blocks)
build_html_cnmv(blocks) ==
    IF blocks = <<>> THEN <<>>
    ELSE join_lines(<< <<"<hr>">>, <<"<h2>">> >>
                    \o Flatten([j \in 1..Len(blocks) |-> cnmv_block_parts(blocks[j])]))

\* full_content.split('\n')[0]
RECURSIVE first_paragraph(_)
first_paragraph(t) ==
    IF t = <<>> \/ Head(t) = "\n" THEN <<>>
    ELSE <<Head(t)>> \o first_paragraph(Tail(t))

\* one article's block in build_html_multi
news_block(a) ==
    LET first == first_paragraph(strip(a.content))
        capped == IF Len(first) > SUMMARY_MAX
                  THEN SubSeq(first, 1, SUMMARY_MAX) \o <<"...">> ELSE first
        resumen_corto == IF capped = <<>> THEN <<"Haz clic en el enlace">> ELSE capped
        p_h == IF a.published = None THEN <<"Sin fecha">>
               ELSE <<ToString(a.published[1].local \div 60)>>
    IN <<"<div>", a.source, "<h3>">> \o url_text(a.url) \o a.title
        \o <<"<div>">> \o p_h
        \o (IF a.author # <<>> THEN <<"Por">> \o a.author ELSE <<>>)
        \o <<"<p>">> \o resumen_corto \o <<"Leer", "</div>">>

\* build_html_multi(arts, tzname), the clock reading now
build_html_multi(arts, tzname, now) ==
    <<"<!doctype html>", "<body>", "<h1>", ToString((now + utcoffset(tzname)) \div 60), tzname, "<div>">>
        \o (IF arts = <<>> THEN <<"No se han encontrado noticias">>
            ELSE Flatten([j \in 1..Len(arts) |-> news_block(arts[j])]))
        \o <<"</div>", "\n", MARKER>>

\* str.replace(old, new) for a one-character old
replace(t, old, new) ==
    Flatten([j \in 1..Len(t) |-> IF t[j] = old THEN new ELSE <<t[j]>>])

\* main(): the final html from html_news and cnmv_html
compose(html_news, cnmv_html) ==
    IF cnmv_html # <<>> /\ Contains(html_news, <<MARKER>>)
    THEN replace(html_news, MARKER, cnmv_html \o <<"\n", MARKER>>)
    ELSE html_news \o cnmv_html

(***************************************************************************)
(* Inputs of a run: the pages the network may serve.                       *)
(***************************************************************************)
T_GAS == <<"G", "a_acute", "s">>
T_OIL == <<"o", "i", "l">>
T_HINT == <<"h">>

A1 == URL("a", <<"n", ".html">>)
A2 == URL("a", <<"g", "a", "s", ".html">>)
B1 == URL("b", <<"n", ".html">>)
REL1 == URL("", <<"n", ".html">>)
ALBUM == URL("a", <<"/album/", "n", ".html">>)

Doc(feed, rss, atom, article_a, heading_a, hrefs) ==
    [feed |-> feed, rss |-> rss, atom |-> atom,
     article_a |-> article_a, heading_a |-> heading_a, hrefs |-> hrefs]

NoDoc == Doc(FALSE, <<>>, <<>>, <<>>, <<>>, {})

SeqsUpTo(S, n) == UNION {[1..k -> S] : k \in 0..n}

\* the links a listing of the run model may hold
RunLinks ==
    {Link(A1, T_GAS, T_HINT), Link(A1, <<>>, <<>>), Link(B1, T_OIL, <<>>),
     Link(REL1, T_OIL, T_HINT), Link(NoHref, T_GAS, <<>>)}

\* the documents a listing or homepage URL may serve, each view holding at
\* most n links
ListingDocs(n) ==
    {Doc(TRUE, r, <<>>, <<>>, <<>>, {}) : r \in SeqsUpTo(RunLinks, n)}
    \cup {Doc(TRUE, <<>>, e, <<>>, <<>>, {A2}) : e \in SeqsUpTo(RunLinks, 1)}
    \cup {Doc(FALSE, <<>>, <<>>, a, h, x) :
            a \in SeqsUpTo({Link(A2, T_GAS, <<>>), Link(B1, <<>>, <<>>)}, 1),
            h \in SeqsUpTo({Link(REL1, T_OIL, T_HINT)}, 1),
            x \in SUBSET {A1, B1, ALBUM}}

\* the documents of the model of a whole run
RunDocs ==
    {Doc(TRUE, r, <<>>, <<>>, <<>>, {}) : r \in SeqsUpTo(RunLinks, 1)}
    \cup {Doc(FALSE, <<>>, <<>>, <<>>, <<Link(REL1, T_OIL, T_HINT)>>, {})}

\* the documents served in the model of a whole run (whole_run) and in the
\* model of parse_all_listings alone
DocsServed(whole_run) == IF whole_run THEN RunDocs ELSE ListingDocs(MaxLinks)

\* what http_get may end with: the status, and the document when it is 200.
\* 403 and 500 raise HTTPError; 0 is a connection error or timeout.
Responses(docs) ==
    {[status |-> st, doc |-> NoDoc] : st \in {403, 500, 0}}
    \cup {[status |-> 200, doc |-> d] : d \in docs}

\* the source list built at load time: "listing" defaults to the homepage url
Source(name, listing, homepage, domain_prefix, max_to_fetch) ==
    [name |-> name, listing |-> listing, homepage |-> homepage,
     domain_prefix |-> domain_prefix, max_to_fetch |-> max_to_fetch]

\* S1 has a feed of its own or none, S2 has none
SourceLists(maxes) ==
    {<<Source("S1", l, URL("a", <<>>), "a", m1),
       Source("S2", URL("b", <<>>), URL("b", <<>>), "b", MaxFetch)>> :
        l \in {URL("a", <<"r", "s", "s">>), URL("a", <<>>)}, m1 \in maxes}

\* the keyword lists a run may be configured with: none, [None], one keyword
KeywordLists == {<<>>, <<None>>, <<(<<"G", "A_acute", "S">>)>>}

\* the clock when the run starts, in seconds
Now0 == 100 * SECONDS_PER_HOUR

\* a date text with explicit offset 0 stating the instant `age` seconds before Now0
Aged(age) == <<DateText(TRUE, Now0 - age, <<0>>)>>

ArtPage(status, jsonld, author_metas, byline, h1, text, date_tags) ==
    [status |-> status, jsonld |-> jsonld, author_metas |-> author_metas,
     byline |-> byline, h1 |-> h1, text |-> text, date_tags |-> date_tags]

NoArtPage == ArtPage(0, None, <<>>, <<>>, <<>>, <<>>, <<>>)

NoTags == <<None, None, None, None, None, None>>

\* the article pages of the run model
RunPages ==
    { \* JSON-LD with everything, one hour old
      ArtPage(200,
              <<Meta(Aged(SECONDS_PER_HOUR), None, T_GAS \o <<" ", "u", "p">>,
                     T_OIL, <<[kind |-> "str", v |-> <<"J">>]>>)>>,
              <<None, None, None, None, None>>, <<>>, <<"h">>, <<>>, NoTags),
      \* no JSON-LD: keyword only in the body, date from a meta tag, exactly
      \* the default window old when the run starts
      ArtPage(200, None, <<None, <<" ", "K", " ">>, None, None, None>>, <<"B">>,
              <<"n", "e", "w", "s">>, <<" ", "G", "A", "S", "\n", "x", " ">>,
              <<None, <<DateText(FALSE, 0, None)>>,
                Aged(DEFAULT_HOURS_RECENT * SECONDS_PER_HOUR), None, None, None>>),
      \* keyword in the title, older than the window
      ArtPage(200,
              <<Meta(Aged((DEFAULT_HOURS_RECENT + 6) * SECONDS_PER_HOUR), None, T_GAS, <<>>, None)>>,
              <<None, None, None, None, None>>, <<>>, <<>>, <<"x">>, NoTags),
      \* keyword in the title, no date anywhere
      ArtPage(200, None, <<None, None, None, None, None>>, <<>>, T_GAS, <<"x">>, NoTags),
      \* recent, no keyword
      ArtPage(200, <<Meta(None, Aged(0), T_OIL, <<"x">>, None)>>,
              <<None, None, None, None, None>>, <<>>, <<>>, <<>>, NoTags),
      \* recent, the title holds the closing marker of the report
      ArtPage(200, <<Meta(Aged(0), None, <<"g", "a", "s", MARKER>>, <<>>, None)>>,
              <<None, None, None, None, None>>, <<>>, <<>>, <<>>, NoTags) }

\* what fetching an article may end with
ArtResponses == RunPages \cup {[NoArtPage EXCEPT !.status = st] : st \in {403, 500, 0}}

CnmvPage(status, tables, headings) ==
    [status |-> status, tables |-> tables, headings |-> headings]

\* the CNMV pages of the run model, and the failed fetches
CnmvResponses ==
    { CnmvPage(200, << [marked |-> FALSE, trs |-> << <<(<<"x">>)>> >>] >>, << <<"E">> >>),
      CnmvPage(200,
               << [marked |-> FALSE, trs |-> <<>>],
                  [marked |-> TRUE,
                   trs |-> << << <<"T">>, <<"%">>, <<"F">> >>,
                              << <<"H">>, <<"1", ",", "2", "5">>, <<"5", "/", "3", "/", "2024">> >>,
                              << <<"H">>, <<"x">>, <<"05", "/", "03", "/", "2024">> >>,
                              << <<"H">>, <<"2">> >>,
                              << <<"I">>, <<"0", ".", "5">>, <<"n", "a">> >> >>] >>,
               << <<>>, <<"Posiciones cortas">>, <<"E">> >>) }
    \cup {CnmvPage(st, <<>>, <<>>) : st \in {403, 500, 0}}

\* the rows of the CNMV model's tables: two cells, three cells with every
\* percentage text, four cells
CnmvRowKinds ==
    {<< <<h>>, <<"2">> >> : h \in {"H", "I"}}
    \cup {<< <<h>>, p, <<"5", "/", "3", "/", "2024">> >> :
            h \in {"H", "I"},
            p \in {<<"1", ",", "2", "5">>, <<"0", ".", "5">>, <<"5">>, <<"x">>,
                   <<"1", ",", "2", ",", "5">>, <<",">>, <<>>}}
    \cup {<< <<"H">>, <<"2", ",", "5">>, <<"n", "a">>, <<"x">> >>}

\* the tables whose text holds one of the two captions: no row at all, or a
\* first row (the header, or a row like any other) and at most n more
CnmvTables(n) ==
    {[marked |-> TRUE, trs |-> <<>>]}
    \cup {[marked |-> TRUE, trs |-> <<first>> \o rest] :
            first \in {<< <<"T">>, <<"%">>, <<"F">> >>,
                       << <<"J">>, <<"1">>, <<"n", "a">> >>},
            rest \in SeqsUpTo(CnmvRowKinds, n)}

\* the CNMV pages of the model of get_cnmv_short_positions alone: no table,
\* a table without the caption, a table with it alone or after another
CnmvPages(n) ==
    {CnmvPage(200, <<>>, <<>>),
     CnmvPage(200, << [marked |-> FALSE, trs |-> << <<(<<"x">>)>> >>] >>, << <<"E">> >>)}
    \cup {CnmvPage(200, <<t>>, << <<"E">> >>) : t \in CnmvTables(n)}
    \cup {CnmvPage(200, << [marked |-> FALSE,
                            trs |-> << << <<"T">> >>, << <<"H">>, <<"1">>, <<"n", "a">> >> >>],
                           t,
                           [marked |-> TRUE,
                            trs |-> << << <<"T">> >>, << <<"I">>, <<"2">>, <<"n", "a">> >> >>] >>,
                    <<>>) : t \in CnmvTables(1)}
    \cup {CnmvPage(st, <<>>, <<>>) : st \in {403, 500, 0}}

\* what fetching the CNMV page may end with, in the model of a whole run
\* (whole_run) and in the model of get_cnmv_short_positions alone
CnmvServed(whole_run) == IF whole_run THEN CnmvResponses ELSE CnmvPages(MaxRows)

TZNAME == "Europe/Madrid"

(***************************************************************************)
(* State of a run of main().                                               *)
(***************************************************************************)
VARIABLES
    pc,           \* where main() stands
    SOURCES,      \* configuration: the sources
    keyword,      \* configuration: the keyword list main() is called with
    hours_recent, \* configuration: CFG's hours_recent, None when absent
    CNMV_NIFS,    \* configuration: the issuer identifiers
    now,          \* the clock, in seconds
    src_i,        \* parse_all_listings: index of the source resolved next
    calls,        \* parse_all_listings: its calls of parse_listing_document so far
    all_items,    \* parse_all_listings: all_items
    resolved,     \* the names of the sources the loop of parse_all_listings handled
    failed,       \* the sources, urls and identifiers whose fetch failed
    before,       \* main: before, the length of the listing the prefilter saw
    listing,      \* main: listing
    i,            \* main: index of the listing item handled next
    attempted,    \* the urls extract_article was called with
    collected,    \* main: collected
    seen,         \* main: seen
    html_news,    \* main: html_news
    nif_i,        \* main: index of the identifier scraped next
    scraped,      \* the identifiers get_cnmv_short_positions was called with
    cnmv_blocks,  \* main: cnmv_blocks
    cnmv_res,     \* the page the last CNMV fetch returned, None when it failed
    cnmv_html,    \* main: cnmv_html
    html,         \* main: html
    deliveries,   \* how often enviar_correo was called
    recent_args,  \* a call of is_recent: its arguments, None before the call
    recent_result, \* what the call returned
    extracted,    \* a call of extract_article: the page served and what the
                  \* call returned, None before the call
    parsed        \* a call of parse_listing_document: the response, the items
                  \* after each tier and the result, None before the call

config == <<SOURCES, keyword, hours_recent, CNMV_NIFS>>
listing_vars == <<src_i, calls, all_items, resolved>>
extract_vars == <<i, attempted, collected, seen, now>>
cnmv_vars == <<nif_i, scraped, cnmv_blocks, cnmv_res>>
report_vars == <<html_news, cnmv_html, html, deliveries>>

recent_vars == <<recent_args, recent_result, extracted, parsed>>

vars == <<pc, config, listing_vars, listing, failed, before, extract_vars, cnmv_vars,
          report_vars, recent_vars>>

\* main: kw_list
kw_list == kw_list_of(keyword)

\* one call of parse_listing_document(url, ...) answered by response r, the
\* regex urls listed in the order urls: whether it raised, its items before
\* the dedup and what it returned
Pass(url, src, r, urls) ==
    IF r.status = 200
    THEN [raised |-> FALSE,
          items |-> tiers(r.doc, url, src.domain_prefix, src.max_to_fetch, urls),
          out |-> parse_listing_document(r.doc, url, src.domain_prefix, src.max_to_fetch, urls)]
    ELSE [raised |-> r.status # 403, items |-> <<>>, out |-> <<>>]

Call(src, url, r, p) ==
    [source |-> src.name, url |-> url, status |-> r.status,
     raised |-> p.raised, items |-> p.items, out |-> p.out]

\* tries_homepage without the test that the homepage is another url
tries_homepage_any(src, first) ==
    ~first.raised /\ Len(first.out) = 0

\* whether parse_all_listings goes on to the homepage after the listing pass
tries_homepage(src, first) ==
    ~first.raised /\ Len(first.out) = 0 /\ src.homepage # src.listing

\* for it in items: it["source"] = name
Tag(items, name) ==
    [k \in 1..Len(items) |->
        [url |-> items[k].url, title |-> items[k].title,
         time_hint |-> items[k].time_hint, source |-> name]]

\* the global dedup of parse_all_listings
\* dedup_global with the membership test lost
dedup_global_none(dedup_set, out, items) == out \o items

RECURSIVE dedup_global(_, _, _)
dedup_global(dedup_set, out, items) ==
    IF items = <<>> THEN out
    ELSE LET it == Head(items) IN
         IF it.url \in dedup_set THEN dedup_global(dedup_set, out, Tail(items))
         ELSE dedup_global(dedup_set \cup {it.url}, Append(out, it), Tail(items))

\* the state main() starts in, the configuration as given
Start(sources, keywords, hours) ==
    /\ pc = "listings"
    /\ SOURCES = sources
    /\ keyword = keywords
    /\ hours_recent = hours
    /\ CNMV_NIFS = <<"N1", "N2">>
    /\ now = Now0
    /\ src_i = 1
    /\ calls = <<>>
    /\ all_items = <<>>
    /\ resolved = {}
    /\ listing = <<>>
    /\ i = 1
    /\ attempted = {}
    /\ collected = <<>>
    /\ seen = {}
    /\ html_news = <<>>
    /\ nif_i = 1
    /\ scraped = {}
    /\ cnmv_blocks = <<>>
    /\ cnmv_res = None
    /\ cnmv_html = <<>>
    /\ html = <<>>
    /\ deliveries = 0
    /\ failed = [sources |-> {}, urls |-> {}, nifs |-> {}]
    /\ before = 0
    /\ recent_args = None
    /\ recent_result = None
    /\ extracted = None
    /\ parsed = None

Init ==
    \E sources \in SourceLists({MaxFetch}), keywords \in KeywordLists,
       hours \in {None, <<1>>} :
        Start(sources, keywords, hours)

\* one iteration of "for src in SOURCES" in parse_all_listings
ResolveSource(whole_run) ==
    /\ pc = "listings"
    /\ src_i <= Len(SOURCES)
    /\ LET src == SOURCES[src_i]
           docs == DocsServed(whole_run) IN
       \E r1 \in Responses(docs) :
       \E u1 \in Orders(extract_urls_regex(r1.doc.hrefs, src.listing, src.domain_prefix)) :
         LET first == Pass(src.listing, src, r1, u1) IN
         IF tries_homepage(src, first)
         THEN \E r2 \in Responses(docs) :
              \E u2 \in Orders(extract_urls_regex(r2.doc.hrefs, src.homepage, src.domain_prefix)) :
                LET second == Pass(src.homepage, src, r2, u2) IN
                /\ calls' = calls \o <<Call(src, src.listing, r1, first),
                                       Call(src, src.homepage, r2, second)>>
                /\ all_items' = all_items \o Tag(second.out, src.name)
                /\ failed' = IF r1.status # 200 \/ r2.status # 200
                             THEN [failed EXCEPT !.sources = @ \cup {src.name}]
                             ELSE failed
         ELSE /\ calls' = Append(calls, Call(src, src.listing, r1, first))
              /\ all_items' = all_items \o Tag(first.out, src.name)
              /\ failed' = IF r1.status # 200
                           THEN [failed EXCEPT !.sources = @ \cup {src.name}]
                           ELSE failed
    /\ resolved' = resolved \cup {SOURCES[src_i].name}
    /\ src_i' = src_i + 1
    /\ UNCHANGED <<pc, config, listing, before, extract_vars, cnmv_vars, report_vars,
                   recent_vars>>

\* the end of parse_all_listings: global dedup, the result becomes main's listing
ReturnListing ==
    /\ pc = "listings"
    /\ src_i > Len(SOURCES)
    /\ listing' = dedup_global({}, <<>>, all_items)
    /\ pc' = "prefilter"
    /\ UNCHANGED <<config, listing_vars, failed, before, extract_vars, cnmv_vars,
                   report_vars, recent_vars>>

\* main(): the keyword normalisation and the adaptive prefilter; the locals of
\* parse_all_listings are gone
Prefilter ==
    /\ pc = "prefilter"
    /\ listing' = prefilter(listing, kw_list)
    /\ before' = IF kw_list # <<>> THEN Len(listing) ELSE before
    /\ calls' = <<>>
    /\ all_items' = <<>>
    /\ pc' = "extract"
    /\ UNCHANGED <<config, src_i, resolved, failed, extract_vars, cnmv_vars,
                   report_vars, recent_vars>>

\* what the loop of main() does with the article extract_article returned
Collect(art, item) ==
    IF strict_filter(art, kw_list, TZNAME, hours_recent, now')
    THEN /\ collected' = Append(collected,
                [url |-> art.url, title |-> art.title, author |-> art.author,
                 published |-> art.published, content |-> art.content,
                 source |-> item.source])
         /\ seen' = seen \cup {item.url}
    ELSE UNCHANGED <<collected, seen>>

\* "except Exception as e: log(...); continue" around extract_article, made
\* to end the run instead
ExtractFails_abort(item) ==
    /\ failed' = [failed EXCEPT !.urls = @ \cup {item.url}]
    /\ pc' = "crashed"
    /\ UNCHANGED <<collected, seen>>

\* "except Exception as e: log(...); continue" around extract_article
ExtractFails(item) ==
    /\ failed' = [failed EXCEPT !.urls = @ \cup {item.url}]
    /\ pc' = pc
    /\ UNCHANGED <<collected, seen>>

\* one iteration of "for i, item in enumerate(listing, 1)"; the clock may
\* have moved on by the time is_recent reads it
ExtractItem ==
    /\ pc = "extract"
    /\ i <= Len(listing)
    /\ LET item == listing[i] IN
       IF kw_list = <<>> /\ item.url \in seen
       THEN UNCHANGED <<pc, attempted, collected, seen, now, failed>>
       ELSE \E page \in ArtResponses, tick \in 0..1 :
            /\ now + tick <= Now0 + MaxDrift
            /\ now' = now + tick
            /\ attempted' = attempted \cup {item.url}
            /\ IF page.status # 200
               THEN ExtractFails(item)
               ELSE /\ failed' = failed
                    /\ pc' = pc
                    /\ Collect(extract_article(page, item.url, TZNAME), item)
    /\ i' = i + 1
    /\ UNCHANGED <<config, listing_vars, listing, before, cnmv_vars, report_vars,
                   recent_vars>>

\* after the loop: save_state(seen); html_news = build_html_multi(collected)
BuildNews ==
    /\ pc = "extract"
    /\ i > Len(listing)
    /\ html_news' = build_html_multi(collected, TZNAME, now)
    /\ pc' = "cnmv"
    /\ UNCHANGED <<config, listing_vars, listing, failed, before, extract_vars,
                   cnmv_vars, cnmv_html, html, deliveries, recent_vars>>

\* one iteration of "for nif in CNMV_NIFS"
ScrapeNif(whole_run) ==
    /\ pc = "cnmv"
    /\ nif_i <= Len(CNMV_NIFS)
    /\ \E page \in CnmvServed(whole_run) :
         LET block == get_cnmv_short_positions(page, CNMV_NIFS[nif_i]) IN
         /\ cnmv_blocks' = IF block # None THEN Append(cnmv_blocks, block[1])
                           ELSE cnmv_blocks
         /\ cnmv_res' = IF page.status = 200 THEN <<page>> ELSE None
         /\ failed' = IF page.status # 200
                      THEN [failed EXCEPT !.nifs = @ \cup {CNMV_NIFS[nif_i]}]
                      ELSE failed
    /\ scraped' = scraped \cup {CNMV_NIFS[nif_i]}
    /\ nif_i' = nif_i + 1
    /\ UNCHANGED <<pc, config, listing_vars, listing, before, extract_vars,
                   report_vars, recent_vars>>

\* cnmv_html = build_html_cnmv(cnmv_blocks) and the final html
Compose ==
    /\ pc = "cnmv"
    /\ nif_i > Len(CNMV_NIFS)
    /\ cnmv_html' = build_html_cnmv(cnmv_blocks)
    /\ html' = compose(html_news, cnmv_html')
    /\ pc' = "deliver"
    /\ UNCHANGED <<config, listing_vars, listing, failed, before, extract_vars,
                   cnmv_vars, html_news, deliveries, recent_vars>>

\* delivers asking for a block with rows
delivers_rows(arts, blocks) ==
    arts # <<>> \/ \E k \in 1..Len(blocks) : blocks[k].rows # <<>>

\* "if collected or cnmv_blocks": whether main() calls enviar_correo
delivers(arts, blocks) == arts # <<>> \/ blocks # <<>>

\* the end of main(): enviar_correo may raise, and then main() ends with
\* that exception
Deliver ==
    /\ pc = "deliver"
    /\ IF delivers(collected, cnmv_blocks)
       THEN /\ deliveries' = deliveries + 1
            /\ pc' \in {"done", "crashed"}
       ELSE /\ deliveries' = deliveries
            /\ pc' = "done"
    /\ UNCHANGED <<config, listing_vars, listing, failed, before, extract_vars,
                   cnmv_vars, html_news, cnmv_html, html, recent_vars>>

Next ==
    \/ ResolveSource(TRUE)
    \/ ReturnListing
    \/ Prefilter
    \/ ExtractItem
    \/ BuildNews
    \/ ScrapeNif(TRUE)
    \/ Compose
    \/ Deliver

Spec == Init /\ [][Next]_vars

(***************************************************************************)
(* parse_all_listings alone, over larger documents and every max_to_fetch. *)
(***************************************************************************)
InitListings ==
    \E sources \in SourceLists(0..MaxFetch) : Start(sources, <<>>, None)

NextListings ==
    \/ ResolveSource(FALSE)
    \/ ReturnListing

SpecListings == InitListings /\ [][NextListings]_vars

(***************************************************************************)
(* The prefilter block of main() alone, on listings about as long as the   *)
(* ones at which its two thresholds meet.                                  *)
(***************************************************************************)
\* item number k of such a listing; one that matches holds the keyword in
\* its title when k is odd and in its url only when k is even
SynthItem(k, match) ==
    [url |-> URL("a", IF match /\ k % 2 = 0 THEN <<"g", "a", "s", ToString(k)>>
                      ELSE <<ToString(k)>>),
     title |-> IF match /\ k % 2 = 1 THEN T_GAS ELSE T_OIL,
     time_hint |-> <<>>, source |-> "S1"]

\* a listing of n items, m of them matching, at its head (lead) or its tail
SynthListing(n, m, lead) ==
    [k \in 1..n |-> SynthItem(k, IF lead THEN k <= m ELSE k > n - m)]

InitPrefilter ==
    \E n \in (THRESH_REL_DEN * THRESH_ABS - MaxExtra)..(THRESH_REL_DEN * THRESH_ABS + MaxExtra),
       m \in (THRESH_ABS - MaxMiss)..(THRESH_ABS + MaxMiss),
       lead \in BOOLEAN, keywords \in KeywordLists :
        /\ pc = "prefilter"
        /\ SOURCES = <<Source("S1", URL("a", <<>>), URL("a", <<>>), "a", DEFAULT_MAX_TO_FETCH)>>
        /\ keyword = keywords
        /\ hours_recent = None
        /\ CNMV_NIFS = <<>>
        /\ now = Now0
        /\ src_i = 2
        /\ calls = <<>>
        /\ all_items = <<>>
        /\ resolved = {"S1"}
        /\ listing = SynthListing(n, m, lead)
        /\ i = 1
        /\ attempted = {}
        /\ collected = <<>>
        /\ seen = {}
        /\ html_news = <<>>
        /\ nif_i = 1
        /\ scraped = {}
        /\ cnmv_blocks = <<>>
        /\ cnmv_res = None
        /\ cnmv_html = <<>>
        /\ html = <<>>
        /\ deliveries = 0
        /\ failed = [sources |-> {}, urls |-> {}, nifs |-> {}]
        /\ before = 0
        /\ recent_args = None
        /\ recent_result = None
        /\ extracted = None
        /\ parsed = None

NextPrefilter == Prefilter

SpecPrefilter == InitPrefilter /\ [][NextPrefilter]_vars

(***************************************************************************)
(* is_recent alone: two calls about one instant at one clock reading.      *)
(***************************************************************************)
\* the arguments: a date text stating an instant up to MaxHours + 1 hours
\* old in steps of half an hour, a text dateparser rejects or no text, and
\* two windows w < w2
RecentArgs ==
    {[dt_iso |-> d, w |-> w, w2 |-> w2] :
        d \in {Aged(k * (SECONDS_PER_HOUR \div 2)) : k \in 0..(2 * MaxHours + 2)}
              \cup {None, <<DateText(FALSE, 0, None)>>},
        w \in 0..MaxHours, w2 \in 0..MaxHours}

InitRecent ==
    \E hours \in {None, <<1>>} :
        /\ pc = "is_recent"
        /\ SOURCES = <<>>
        /\ keyword = <<>>
        /\ hours_recent = hours
        /\ CNMV_NIFS = <<>>
        /\ now = Now0
        /\ src_i = 1
        /\ calls = <<>>
        /\ all_items = <<>>
        /\ resolved = {}
        /\ listing = <<>>
        /\ i = 1
        /\ attempted = {}
        /\ collected = <<>>
        /\ seen = {}
        /\ html_news = <<>>
        /\ nif_i = 1
        /\ scraped = {}
        /\ cnmv_blocks = <<>>
        /\ cnmv_res = None
        /\ cnmv_html = <<>>
        /\ html = <<>>
        /\ deliveries = 0
        /\ failed = [sources |-> {}, urls |-> {}, nifs |-> {}]
        /\ before = 0
        /\ recent_args = None
        /\ recent_result = None
        /\ extracted = None
        /\ parsed = None

\* is_recent(dt_iso, tzname, hours=w) and is_recent(dt_iso, tzname, hours=w2)
EvalRecent ==
    /\ pc = "is_recent"
    /\ recent_args = None
    /\ \E a \in RecentArgs :
        /\ a.w < a.w2
        /\ recent_args' = <<a>>
        /\ recent_result' = <<is_recent(a.dt_iso, TZNAME, <<a.w>>, hours_recent, now),
                              is_recent(a.dt_iso, TZNAME, <<a.w2>>, hours_recent, now)>>
    /\ UNCHANGED <<pc, config, listing_vars, listing, failed, before, extract_vars,
                   cnmv_vars, report_vars, extracted, parsed>>

NextRecent == EvalRecent

SpecRecent == InitRecent /\ [][NextRecent]_vars

(***************************************************************************)
(* The CNMV loop of main() alone, over every table of up to MaxRows rows,  *)
(* in a run without sources.                                               *)
(***************************************************************************)
InitCnmv ==
    /\ pc = "cnmv"
    /\ SOURCES = <<>>
    /\ keyword = <<>>
    /\ hours_recent = None
    /\ CNMV_NIFS = <<"N1">>
    /\ now = Now0
    /\ src_i = 1
    /\ calls = <<>>
    /\ all_items = <<>>
    /\ resolved = {}
    /\ listing = <<>>
    /\ i = 1
    /\ attempted = {}
    /\ collected = <<>>
    /\ seen = {}
    /\ html_news = build_html_multi(<<>>, TZNAME, Now0)
    /\ nif_i = 1
    /\ scraped = {}
    /\ cnmv_blocks = <<>>
    /\ cnmv_res = None
    /\ cnmv_html = <<>>
    /\ html = <<>>
    /\ deliveries = 0
    /\ failed = [sources |-> {}, urls |-> {}, nifs |-> {}]
    /\ before = 0
    /\ recent_args = None
    /\ recent_result = None
    /\ extracted = None
    /\ parsed = None

NextCnmv ==
    \/ ScrapeNif(FALSE)
    \/ Compose

SpecCnmv == InitCnmv /\ [][NextCnmv]_vars

(***************************************************************************)
(* extract_article alone, over pages whose sources of author and date are  *)
(* present, empty or unusable in every combination.                        *)
(***************************************************************************)
\* a date text dateparser makes nothing of
BadDate == <<DateText(FALSE, 0, None)>>

\* the author values of a JSON-LD block: none, a name, "", a dict with an
\* @id only, a list of a dict, a number and a str
JsonldAuthors ==
    {None,
     <<[kind |-> "str", v |-> <<"J">>]>>,
     <<[kind |-> "str", v |-> <<>>]>>,
     <<[kind |-> "dict", name |-> <<>>, id |-> <<"I">>]>>,
     <<[kind |-> "list",
        elems |-> << <<[kind |-> "dict", name |-> <<"N">>, id |-> <<>>]>>,
                     <<[kind |-> "other"]>>,
                     <<[kind |-> "str", v |-> <<"M">>]>> >>]>>}

\* the JSON-LD blocks: datePublished and dateModified missing, unusable or
\* stating an instant one and two hours back
JsonldBlocks ==
    {None}
    \cup {<<Meta(dp, dm, None, None, a)>> :
            dp \in {None, BadDate, Aged(SECONDS_PER_HOUR)},
            dm \in {None, BadDate, Aged(2 * SECONDS_PER_HOUR)},
            a \in JsonldAuthors}

\* the content of the tags the five author selectors find: no tag or no
\* content, blanks only, a name
AuthorMetas ==
    {<<m1, m2, None, None, m5>> :
        m1 \in {None, <<" ">>, <<" ", "K1", " ">>},
        m2 \in {None, <<" ">>, <<"K2">>},
        m5 \in {None, <<" ">>, <<"K5">>}}

\* the text of the tags the six date selectors find
DateTags ==
    {NoTags,
     <<None, BadDate, Aged(3 * SECONDS_PER_HOUR), None, None, Aged(4 * SECONDS_PER_HOUR)>>,
     <<None, None, None, None, None, Aged(4 * SECONDS_PER_HOUR)>>,
     <<BadDate, BadDate, BadDate, BadDate, BadDate, BadDate>>,
     <<(<<DateText(TRUE, Now0 - 5 * SECONDS_PER_HOUR, None)>>), None, None, None, None, None>>}

ExtractPages ==
    {ArtPage(200, j, m, b, <<"h">>, <<" ", "x", " ">>, d) :
        j \in JsonldBlocks, m \in AuthorMetas, b \in {<<>>, <<"B">>}, d \in DateTags}
    \cup {[NoArtPage EXCEPT !.status = st] : st \in {403, 500, 0}}

InitExtract ==
    /\ pc = "extract_article"
    /\ SOURCES = <<>>
    /\ keyword = <<>>
    /\ hours_recent = None
    /\ CNMV_NIFS = <<>>
    /\ now = Now0
    /\ src_i = 1
    /\ calls = <<>>
    /\ all_items = <<>>
    /\ resolved = {}
    /\ listing = <<>>
    /\ i = 1
    /\ attempted = {}
    /\ collected = <<>>
    /\ seen = {}
    /\ html_news = <<>>
    /\ nif_i = 1
    /\ scraped = {}
    /\ cnmv_blocks = <<>>
    /\ cnmv_res = None
    /\ cnmv_html = <<>>
    /\ html = <<>>
    /\ deliveries = 0
    /\ failed = [sources |-> {}, urls |-> {}, nifs |-> {}]
    /\ before = 0
    /\ recent_args = None
    /\ recent_result = None
    /\ extracted = None
    /\ parsed = None

\* extract_article(url, tzname): it raises when the fetch fails
EvalExtract ==
    /\ pc = "extract_article"
    /\ extracted = None
    /\ \E page \in ExtractPages :
        extracted' = <<[page |-> page,
                        art |-> IF page.status = 200
                                THEN <<extract_article(page, A1, TZNAME)>> ELSE None]>>
    /\ UNCHANGED <<pc, config, listing_vars, listing, failed, before, extract_vars,
                   cnmv_vars, report_vars, recent_args, recent_result, parsed>>

NextExtract == EvalExtract

SpecExtract == InitExtract /\ [][NextExtract]_vars

(***************************************************************************)
(* parse_listing_document alone, over documents whose tiers hold up to     *)
(* MaxTier elements, more than the regex fallback's threshold.             *)
(***************************************************************************)
\* the documents: with an <rss> or <feed> element, <item>s, and anchors and
\* hrefs beside them; with <entry>s only; without feed, anchors of which
\* some leave the domain
TierDocs(n) ==
    {Doc(TRUE, r, <<>>, a, <<>>, x) :
        r \in SeqsUpTo({Link(A1, T_GAS, T_HINT), Link(B1, T_OIL, <<>>),
                        Link(NoHref, T_GAS, <<>>)}, n),
        a \in {<<>>, <<Link(A2, T_GAS, <<>>)>>},
        x \in {{}, {A1, A2}, {ALBUM}}}
    \cup {Doc(TRUE, <<>>, e, <<>>, <<>>, {A2}) :
            e \in SeqsUpTo({Link(A1, T_GAS, T_HINT), Link(NoHref, T_GAS, <<>>)}, 2)}
    \cup {Doc(FALSE, <<>>, <<>>, a, h, x) :
            a \in SeqsUpTo({Link(A2, T_GAS, <<>>), Link(B1, <<>>, <<>>)}, n),
            h \in SeqsUpTo({Link(REL1, T_OIL, T_HINT)}, 1),
            x \in {{}, {A1, A2}, {ALBUM}}}

InitTiers ==
    /\ pc = "parse_listing_document"
    /\ SOURCES \in {<<Source("S1", URL("a", <<>>), URL("a", <<>>), "a", m)>> :
                        m \in {1, REGEX_MIN_ITEMS, DEFAULT_MAX_TO_FETCH}}
    /\ keyword = <<>>
    /\ hours_recent = None
    /\ CNMV_NIFS = <<>>
    /\ now = Now0
    /\ src_i = 1
    /\ calls = <<>>
    /\ all_items = <<>>
    /\ resolved = {}
    /\ listing = <<>>
    /\ i = 1
    /\ attempted = {}
    /\ collected = <<>>
    /\ seen = {}
    /\ html_news = <<>>
    /\ nif_i = 1
    /\ scraped = {}
    /\ cnmv_blocks = <<>>
    /\ cnmv_res = None
    /\ cnmv_html = <<>>
    /\ html = <<>>
    /\ deliveries = 0
    /\ failed = [sources |-> {}, urls |-> {}, nifs |-> {}]
    /\ before = 0
    /\ recent_args = None
    /\ recent_result = None
    /\ extracted = None
    /\ parsed = None

\* parse_listing_document(src["listing"], src["domain_prefix"],
\* src["max_to_fetch"], ...): items as it stands after each tier
EvalTiers ==
    /\ pc = "parse_listing_document"
    /\ parsed = None
    /\ LET src == SOURCES[1] IN
       \E r \in Responses(TierDocs(MaxTier)) :
       \E urls \in Orders(extract_urls_regex(r.doc.hrefs, src.listing, src.domain_prefix)) :
         LET p == Pass(src.listing, src, r, urls)
             feed == feed_tier(r.doc, src.listing, src.max_to_fetch)
             html_items == html_tier(feed, r.doc, src.listing, src.domain_prefix,
                                     src.max_to_fetch)
         IN parsed' = <<[status |-> r.status, doc |-> r.doc, urls |-> urls,
                         raised |-> p.raised,
                         feed |-> IF r.status = 200 THEN feed ELSE <<>>,
                         html |-> IF r.status = 200 THEN html_items ELSE <<>>,
                         items |-> p.items, out |-> p.out]>>
    /\ UNCHANGED <<pc, config, listing_vars, listing, failed, before, extract_vars,
                   cnmv_vars, report_vars, recent_args, recent_result, extracted>>

NextTiers == EvalTiers

SpecTiers == InitTiers /\ [][NextTiers]_vars

(***************************************************************************)
(* The claims.                                                             *)
(***************************************************************************)
\* the calls of parse_listing_document made for the source called name
calls_of(name) == SelectSeq(calls, LAMBDA c : c.source = name)

\* the sources the loop of parse_all_listings is through with, while the
\* calls are on record
Handled == IF pc \in {"listings", "prefilter"} THEN 1..(src_i - 1) ELSE {}

SourceNames == {SOURCES[k].name : k \in 1..Len(SOURCES)}

\* C1: a source whose listing fetch is rejected with 403 is skipped entirely:
\* no further fetch is made for it, no item of the aggregate is its own, and
\* the remaining sources are still resolved.
C1_SkippedOn403 ==
    /\ \A k \in Handled :
        LET cs == calls_of(SOURCES[k].name) IN
        cs[1].status = 403 =>
            /\ Len(cs) = 1
            /\ \A j \in 1..Len(all_items) : all_items[j].source # SOURCES[k].name
    /\ pc = "prefilter" => resolved = SourceNames

\* C2: one resolution pass returns at most max_to_fetch items, for every
\* max_to_fetch >= 0.
C2_AtMostMax ==
    \A k \in Handled :
        LET cs == calls_of(SOURCES[k].name) IN
        \A c \in 1..Len(cs) : Len(cs[c].out) <= SOURCES[k].max_to_fetch

\* out holds no url twice, each of its items is the first item of `items`
\* with that url, and they stand in the order of those first occurrences
KeepsFirst(items, out) ==
    /\ \A a, b \in 1..Len(out) : a # b => out[a].url # out[b].url
    /\ \A a \in 1..Len(out) :
        \E j \in 1..Len(items) :
            /\ items[j] = out[a]
            /\ \A m \in 1..(j - 1) : items[m].url # out[a].url
    /\ \A a, b \in 1..Len(out) :
        a < b => \E j, m \in 1..Len(items) :
                    j < m /\ items[j].url = out[a].url /\ items[m].url = out[b].url

\* C3: no url occurs twice in the result of a pass nor in the aggregate; of
\* the items with one url the first found is kept, with its source tag, and
\* the kept items stay in the order they were found in.
C3_DedupKeepsFirst ==
    /\ \A c \in 1..Len(calls) : KeepsFirst(calls[c].items, calls[c].out)
    /\ pc = "prefilter" =>
        /\ KeepsFirst(all_items, listing)
        /\ \A j \in 1..Len(all_items) :
            \E a \in 1..Len(listing) : listing[a].url = all_items[j].url

\* C3 witness: the aggregate is built, two sources found the same url, and
\* one pass found a url twice under different titles.
C3_Witness ==
    /\ pc = "prefilter"
    /\ \E a, b \in 1..Len(all_items) :
        a < b /\ all_items[a].url = all_items[b].url
              /\ all_items[a].source # all_items[b].source
    /\ \E c \in 1..Len(calls) : \E a, b \in 1..Len(calls[c].items) :
        a < b /\ calls[c].items[a].url = calls[c].items[b].url
              /\ calls[c].items[a].title # calls[c].items[b].title

\* C4: a source whose listing pass yields zero items and whose homepage is
\* another url gets a second pass, against the homepage, before it is
\* reported; a source whose homepage is its listing url gets one pass only.
C4_HomepageRetry ==
    \A k \in Handled :
        LET src == SOURCES[k]
            cs == calls_of(src.name) IN
        /\ cs[1].url = src.listing
        /\ (src.homepage # src.listing /\ ~cs[1].raised /\ cs[1].out = <<>>) =>
              Len(cs) = 2 /\ cs[2].url = src.homepage
        /\ src.homepage = src.listing => Len(cs) = 1

\* C4 witness: a listing fetched with 200 held nothing, the homepage was
\* tried and held nothing either.
C4_Witness ==
    \E k \in Handled :
        LET src == SOURCES[k]
            cs == calls_of(src.name) IN
        /\ src.homepage # src.listing
        /\ Len(cs) = 2
        /\ cs[1].status = 200 /\ cs[2].status = 200 /\ cs[2].out = <<>>

\* C5: failures in one source, article or identifier never keep the others
\* from being processed: every source is resolved, extraction is attempted
\* for every item of the listing, every identifier is scraped, and nothing
\* before the delivery ends the run.
C5_Isolation ==
    /\ pc # "listings" => resolved = SourceNames
    /\ pc \notin {"listings", "prefilter", "extract"} =>
          \A k \in 1..Len(listing) : listing[k].url \in attempted
    /\ pc \in {"deliver", "done", "crashed"} =>
          scraped = {CNMV_NIFS[k] : k \in 1..Len(CNMV_NIFS)}
    /\ pc = "crashed" => deliveries = 1

\* C5 witness: a finished run in which a source, an article and an
\* identifier failed and others yielded an article and a block.
C5_Witness ==
    /\ pc = "done"
    /\ failed.sources # {} /\ failed.urls # {} /\ failed.nifs # {}
    /\ collected # <<>> /\ cnmv_blocks # <<>>

\* the items of the listing that match a keyword in title or url
Matching == SelectSeq(listing, LAMBDA it : listing_match(it, kw_list))

\* C6: with keywords configured, the extraction stage receives exactly the M
\* matching items of the N listed if M >= max(50, floor(N / 5)), the 20% of N
\* truncated to an integer, and the full listing otherwise.
C6_PrefilterFloor ==
    [][(pc = "prefilter" /\ kw_list # <<>>) =>
        LET N == Len(listing)
            M == Len(Matching)
        IN /\ pc' = "extract"
           /\ listing' = IF M >= THRESH_ABS /\ M >= N \div 5 THEN Matching ELSE listing]_vars

\* C6 witness: the prefilter was applied to 251 items of which 50 matched,
\* fewer than 20% of them.
C6_Witness ==
    /\ pc = "extract"
    /\ kw_list # <<>>
    /\ before = THRESH_REL_DEN * THRESH_ABS + 1
    /\ Len(listing) = THRESH_ABS
    /\ \A k \in 1..Len(listing) : listing_match(listing[k], kw_list)

\* C6 as stated: the M matching items are what extraction receives if
\* M >= max(50, 20% of N), the full listing otherwise.
C6_PrefilterExact ==
    [][(pc = "prefilter" /\ kw_list # <<>>) =>
        LET N == Len(listing)
            M == Len(Matching)
        IN listing' = IF M >= THRESH_ABS /\ 100 * M >= 20 * N THEN Matching ELSE listing]_vars

\* the instant the published text of an article states, and the window in
\* seconds main() judges it by
PublishedAt(a) == a.published[1].local - a.published[1].offset[1]

Window ==
    (IF hours_recent = None THEN DEFAULT_HOURS_RECENT ELSE hours_recent[1]) * SECONDS_PER_HOUR

\* C7: collected only grows at its end, and every article appended to it has
\* a published instant, no further back than the window when it was judged,
\* and, with keywords configured, a keyword in norm(title + " " + content).
C7_StrictFilter ==
    [][/\ Len(collected') >= Len(collected)
       /\ SubSeq(collected', 1, Len(collected)) = collected
       /\ \A k \in (Len(collected) + 1)..Len(collected') :
            LET a == collected'[k] IN
            /\ a.published # None
            /\ now' - PublishedAt(a) <= Window
            /\ kw_list # <<>> =>
                 \E j \in 1..Len(kw_list) :
                    Contains(norm(a.title \o <<" ">> \o a.content), kw_list[j])]_vars

\* C7 witness: with a keyword configured and the default window, the report
\* is built from an article exactly as old as the window, whose keyword
\* stands in its body only, while an article extracted without failure was
\* left out.
C7_Witness ==
    /\ pc = "cnmv"
    /\ kw_list # <<>>
    /\ hours_recent = None
    /\ \E k \in 1..Len(collected) :
        /\ now - PublishedAt(collected[k]) = Window
        /\ ~Contains(norm(collected[k].title), kw_list[1])
    /\ \E u \in attempted \ failed.urls : \A k \in 1..Len(collected) : collected[k].url # u

\* C8: for one instant and one clock reading, is_recent with window w true
\* implies is_recent with any window w2 > w true, for w >= 0.
C8_Monotonic ==
    recent_result # None => (recent_result[1] => recent_result[2])

\* whether the run is over, and whether it has something to report
Finished == pc \in {"done", "crashed"}

HasReport == collected # <<>> \/ cnmv_blocks # <<>>

\* C9: delivery is attempted at most once and only when the extraction loop
\* and the CNMV loop are through; a finished run with an article or a block
\* attempted it once, a finished run with neither ended normally without.
C9_DeliveryOnce ==
    /\ deliveries <= 1
    /\ deliveries = 1 =>
        /\ Finished
        /\ HasReport
        /\ i > Len(listing)
        /\ nif_i > Len(CNMV_NIFS)
    /\ (Finished /\ HasReport) => deliveries = 1
    /\ (Finished /\ ~HasReport) => (pc = "done" /\ deliveries = 0)

\* C9 witness: a finished run without articles whose only blocks have no
\* rows attempted delivery.
C9_Witness ==
    /\ pc = "done"
    /\ deliveries = 1
    /\ collected = <<>>
    /\ cnmv_blocks # <<>>
    /\ \A k \in 1..Len(cnmv_blocks) : cnmv_blocks[k].rows = <<>>

\* C10: with issuer markup, the final html is html_news with the markup and
\* a newline inserted once, before the closing marker, if html_news holds
\* the marker, and html_news followed by the markup if it does not.
C10_InsertedOnce ==
    (pc \in {"deliver", "done", "crashed"} /\ cnmv_html # <<>>) =>
        IF \E k \in 1..Len(html_news) : html_news[k] = MARKER
        THEN \E k \in 1..Len(html_news) :
                /\ html_news[k] = MARKER
                /\ html = SubSeq(html_news, 1, k - 1) \o cnmv_html \o <<"\n">>
                            \o SubSeq(html_news, k, Len(html_news))
        ELSE html = html_news \o cnmv_html

\* whether a percentage text, its decimal commas read as points, is a number
IsNumber(t) ==
    LET u == [j \in 1..Len(t) |-> IF t[j] = "," THEN "." ELSE t[j]] IN
    /\ \A j \in 1..Len(u) : u[j] \in {"0", "1", "2", "5", "."}
    /\ Cardinality({j \in 1..Len(u) : u[j] = "."}) <= 1
    /\ \E j \in 1..Len(u) : u[j] # "."

\* the rows of a table after its first that have three cells or more and a
\* percentage cell that is a number
KeptRows(table) ==
    IF table.trs = <<>> THEN <<>>
    ELSE SelectSeq(Tail(table.trs), LAMBDA tr : Len(tr) >= 3 /\ IsNumber(tr[2]))

\* the tables of the fetched page that hold the caption
Found == SelectSeq(cnmv_res[1].tables, LAMBDA t : t.marked)

\* C11: the block of a page with a disclosure table lists, in table order,
\* exactly the rows after the first that have at least 3 cells and a
\* percentage that parses once its comma is a point ("1,25" is 1.25); the
\* block of a page without such a table has an empty row list.
C11_RowsKept ==
    cnmv_res # None =>
        /\ cnmv_blocks # <<>>
        /\ LET rows == cnmv_blocks[Len(cnmv_blocks)].rows IN
           IF Found = <<>> THEN rows = <<>>
           ELSE LET kept == KeptRows(Found[1]) IN
                /\ Len(rows) = Len(kept)
                /\ \A k \in 1..Len(kept) :
                    /\ rows[k].holder = kept[k][1]
                    /\ rows[k].date \in {kept[k][3], date_iso_of(kept[k][3])}
                    /\ kept[k][2] = <<"1", ",", "2", "5">> =>
                         100 * rows[k].net_short_pct.num = 125 * rows[k].net_short_pct.den

\* C11 witness: a table whose rows after the header are a row with a
\* percentage that does not parse, a row of two cells and a row that is
\* kept, alone, with its comma read as a point.
C11_Witness ==
    /\ cnmv_res # None
    /\ Found # <<>>
    /\ Len(Found[1].trs) = 4
    /\ Len(Found[1].trs[2]) = 3 /\ ~IsNumber(Found[1].trs[2][2])
    /\ Len(Found[1].trs[3]) = 2
    /\ KeptRows(Found[1]) = <<Found[1].trs[4]>>
    /\ Found[1].trs[4][2] = <<"1", ",", "2", "5">>
    /\ Len(cnmv_blocks[Len(cnmv_blocks)].rows) = 1

\* whether a timestamp candidate normalizes, and the instant it then states
\* (a text without offset is read as UTC)
Normalizes(c) == c # None /\ c[1].ok

InstantOf(c) == c[1].local - (IF c[1].offset = None THEN 0 ELSE c[1].offset[1])

\* the JSON-LD block of the page extract_article was given, and the
\* timestamp candidates of the page in the order of their priority: the
\* structured published and modified timestamps, the five meta tags, <time>
ExtractedMeta ==
    IF extracted[1].page.jsonld = None THEN NoMeta ELSE extracted[1].page.jsonld[1]

DateCandidates ==
    <<ExtractedMeta.datePublished, ExtractedMeta.dateModified>> \o extracted[1].page.date_tags

\* C12: of a fetched page, author is the structured author if non-empty,
\* else the content of the first author meta tag that has content, else the
\* byline; published is the instant of the first timestamp candidate that
\* normalizes, and absent only when none does.
C12_FirstSourceWins ==
    (extracted # None /\ extracted[1].art # None) =>
        LET page == extracted[1].page
            art == extracted[1].art[1]
            structured == jsonld_author(ExtractedMeta.author)
            tagged == {k \in 1..Len(page.author_metas) : page.author_metas[k] # None}
            first_tag == strip(page.author_metas[CHOOSE k \in tagged : \A m \in tagged : k <= m])
            good == {k \in 1..Len(DateCandidates) : Normalizes(DateCandidates[k])}
        IN /\ art.author = IF structured # <<>> THEN structured
                           ELSE IF tagged # {} /\ first_tag # <<>> THEN first_tag
                           ELSE page.byline
           /\ IF good = {} THEN art.published = None
              ELSE /\ art.published # None
                   /\ PublishedAt(art) =
                        InstantOf(DateCandidates[CHOOSE k \in good : \A m \in good : k <= m])

\* the items the regex fallback makes of the first n urls it is given
RegexItems(urls, n) == [k \in 1..n |-> Item(urls[k], <<>>, <<>>)]

\* the anchors the HTML tier goes through, and whether one of them yields
\* an item
Candidates(doc) == IF doc.article_a # <<>> THEN doc.article_a ELSE doc.heading_a

Usable(doc, src) ==
    \E k \in 1..Len(Candidates(doc)) :
        /\ Candidates(doc)[k].href # NoHref
        /\ urljoin(src.listing, Candidates(doc)[k].href).site = src.domain_prefix

\* C13: in a pass over a fetched document the HTML tier adds items only when
\* the feed tier left none (and then does, if an anchor is usable); the regex
\* fallback runs exactly when fewer than 5 items stand after the two tiers,
\* and its items, in the order of its urls, follow the items already found.
C13_TierOrder ==
    (parsed # None /\ parsed[1].status = 200) =>
        LET c == parsed[1]
            src == SOURCES[1]
            added == Len(c.items) - Len(c.html)
        IN /\ c.feed # <<>> => (c.doc.feed /\ c.html = c.feed)
           /\ (c.feed = <<>> /\ Usable(c.doc, src)) => c.html # <<>>
           /\ Len(c.html) >= 5 => c.items = c.html
           /\ Len(c.html) < 5 =>
                /\ added \in 0..Len(c.urls)
                /\ c.items = c.html \o RegexItems(c.urls, added)
                /\ c.urls # <<>> => added >= 1
                /\ added < Len(c.urls) => Len(c.items) >= src.max_to_fetch

\* C13 witness: the feed tier found exactly 5 items in a document that also
\* has a usable anchor and urls for the regex fallback, and the pass went on
\* with those 5 items alone.
C13_Witness ==
    /\ parsed # None
    /\ parsed[1].status = 200
    /\ Len(parsed[1].feed) = 5
    /\ Usable(parsed[1].doc, SOURCES[1])
    /\ parsed[1].urls # <<>>
    /\ parsed[1].items = parsed[1].feed

====
